---------------------------- MODULE Spec2Model ----------------------------
(***************************************************************************)
(* Model of personal-cfo-bot/bot.py: the budget dialogue of the Telegram   *)
(* bot (aiogram handlers, the FSM state of each user, the user_data        *)
(* table) and the calculator calculate_results.                            *)
(*                                                                         *)
(* A text is a sequence of characters, each character a one-token string.  *)
(* The module is ASCII only, so the Cyrillic letters and the emoji of the  *)
(* button labels are transliterated one token per character:               *)
(*   "[x]" the cross mark, "[>>]" the skip arrow, "[$]" the money bag,     *)
(*   "[?]" the question mark emoji, "[#]" the bar chart emoji,             *)
(*   "RUB" the rouble sign, "ch" "zh" "ju" "soft" single Cyrillic letters. *)
(* Any other character outside printable ASCII is the token "U+" followed  *)
(* by its code point in hexadecimal ("U+00A0" the no-break space,          *)
(* "U+0663" the Arabic-Indic digit three); tab, line feed, form feed and   *)
(* carriage return are "\t", "\n", "\f", "\r".                             *)
(***************************************************************************)
EXTENDS Integers, Sequences, FiniteSets, TLC

VARIABLES
    user_data,  \* bot.py:72   dict: user id -> dict: field name -> value
    fsm,        \* bot.py:56   MemoryStorage: user id -> FSM state or "None"
    out,        \* what the last handled update produced (message sent or exception)
    dialogue,   \* history: the replies accepted since the user's last start
    net,        \* environment: how many more handler runs may see message.answer raise
    tasks       \* handler coroutines suspended at their await message.answer

vars == <<user_data, fsm, out, dialogue, net, tasks>>

---------------------------------------------------------------------------
(* Bounds and input samples *)

\* how many of SampleAmounts the users reply with
NumAmounts == 1

SampleAmounts == <<3000, 7, 100>>

Users == {"u1"}

---------------------------------------------------------------------------
(* Characters and text helpers (Python str methods) *)

DigitChar == <<"0", "1", "2", "3", "4", "5", "6", "7", "8", "9">>

\* the decimal digits int() accepts: the characters of Unicode category Nd,
\* in blocks of ten from the zero of each script
DecimalDigits ==
    <<DigitChar,
      <<"U+0660", "U+0661", "U+0662", "U+0663", "U+0664", "U+0665", "U+0666", "U+0667", "U+0668", "U+0669">>,
      <<"U+06F0", "U+06F1", "U+06F2", "U+06F3", "U+06F4", "U+06F5", "U+06F6", "U+06F7", "U+06F8", "U+06F9">>,
      <<"U+07C0", "U+07C1", "U+07C2", "U+07C3", "U+07C4", "U+07C5", "U+07C6", "U+07C7", "U+07C8", "U+07C9">>,
      <<"U+0966", "U+0967", "U+0968", "U+0969", "U+096A", "U+096B", "U+096C", "U+096D", "U+096E", "U+096F">>,
      <<"U+09E6", "U+09E7", "U+09E8", "U+09E9", "U+09EA", "U+09EB", "U+09EC", "U+09ED", "U+09EE", "U+09EF">>,
      <<"U+0A66", "U+0A67", "U+0A68", "U+0A69", "U+0A6A", "U+0A6B", "U+0A6C", "U+0A6D", "U+0A6E", "U+0A6F">>,
      <<"U+0AE6", "U+0AE7", "U+0AE8", "U+0AE9", "U+0AEA", "U+0AEB", "U+0AEC", "U+0AED", "U+0AEE", "U+0AEF">>,
      <<"U+0B66", "U+0B67", "U+0B68", "U+0B69", "U+0B6A", "U+0B6B", "U+0B6C", "U+0B6D", "U+0B6E", "U+0B6F">>,
      <<"U+0BE6", "U+0BE7", "U+0BE8", "U+0BE9", "U+0BEA", "U+0BEB", "U+0BEC", "U+0BED", "U+0BEE", "U+0BEF">>,
      <<"U+0C66", "U+0C67", "U+0C68", "U+0C69", "U+0C6A", "U+0C6B", "U+0C6C", "U+0C6D", "U+0C6E", "U+0C6F">>,
      <<"U+0CE6", "U+0CE7", "U+0CE8", "U+0CE9", "U+0CEA", "U+0CEB", "U+0CEC", "U+0CED", "U+0CEE", "U+0CEF">>,
      <<"U+0D66", "U+0D67", "U+0D68", "U+0D69", "U+0D6A", "U+0D6B", "U+0D6C", "U+0D6D", "U+0D6E", "U+0D6F">>,
      <<"U+0DE6", "U+0DE7", "U+0DE8", "U+0DE9", "U+0DEA", "U+0DEB", "U+0DEC", "U+0DED", "U+0DEE", "U+0DEF">>,
      <<"U+0E50", "U+0E51", "U+0E52", "U+0E53", "U+0E54", "U+0E55", "U+0E56", "U+0E57", "U+0E58", "U+0E59">>,
      <<"U+0ED0", "U+0ED1", "U+0ED2", "U+0ED3", "U+0ED4", "U+0ED5", "U+0ED6", "U+0ED7", "U+0ED8", "U+0ED9">>,
      <<"U+0F20", "U+0F21", "U+0F22", "U+0F23", "U+0F24", "U+0F25", "U+0F26", "U+0F27", "U+0F28", "U+0F29">>,
      <<"U+1040", "U+1041", "U+1042", "U+1043", "U+1044", "U+1045", "U+1046", "U+1047", "U+1048", "U+1049">>,
      <<"U+1090", "U+1091", "U+1092", "U+1093", "U+1094", "U+1095", "U+1096", "U+1097", "U+1098", "U+1099">>,
      <<"U+17E0", "U+17E1", "U+17E2", "U+17E3", "U+17E4", "U+17E5", "U+17E6", "U+17E7", "U+17E8", "U+17E9">>,
      <<"U+1810", "U+1811", "U+1812", "U+1813", "U+1814", "U+1815", "U+1816", "U+1817", "U+1818", "U+1819">>,
      <<"U+1946", "U+1947", "U+1948", "U+1949", "U+194A", "U+194B", "U+194C", "U+194D", "U+194E", "U+194F">>,
      <<"U+19D0", "U+19D1", "U+19D2", "U+19D3", "U+19D4", "U+19D5", "U+19D6", "U+19D7", "U+19D8", "U+19D9">>,
      <<"U+1A80", "U+1A81", "U+1A82", "U+1A83", "U+1A84", "U+1A85", "U+1A86", "U+1A87", "U+1A88", "U+1A89">>,
      <<"U+1A90", "U+1A91", "U+1A92", "U+1A93", "U+1A94", "U+1A95", "U+1A96", "U+1A97", "U+1A98", "U+1A99">>,
      <<"U+1B50", "U+1B51", "U+1B52", "U+1B53", "U+1B54", "U+1B55", "U+1B56", "U+1B57", "U+1B58", "U+1B59">>,
      <<"U+1BB0", "U+1BB1", "U+1BB2", "U+1BB3", "U+1BB4", "U+1BB5", "U+1BB6", "U+1BB7", "U+1BB8", "U+1BB9">>,
      <<"U+1C40", "U+1C41", "U+1C42", "U+1C43", "U+1C44", "U+1C45", "U+1C46", "U+1C47", "U+1C48", "U+1C49">>,
      <<"U+1C50", "U+1C51", "U+1C52", "U+1C53", "U+1C54", "U+1C55", "U+1C56", "U+1C57", "U+1C58", "U+1C59">>,
      <<"U+A620", "U+A621", "U+A622", "U+A623", "U+A624", "U+A625", "U+A626", "U+A627", "U+A628", "U+A629">>,
      <<"U+A8D0", "U+A8D1", "U+A8D2", "U+A8D3", "U+A8D4", "U+A8D5", "U+A8D6", "U+A8D7", "U+A8D8", "U+A8D9">>,
      <<"U+A900", "U+A901", "U+A902", "U+A903", "U+A904", "U+A905", "U+A906", "U+A907", "U+A908", "U+A909">>,
      <<"U+A9D0", "U+A9D1", "U+A9D2", "U+A9D3", "U+A9D4", "U+A9D5", "U+A9D6", "U+A9D7", "U+A9D8", "U+A9D9">>,
      <<"U+A9F0", "U+A9F1", "U+A9F2", "U+A9F3", "U+A9F4", "U+A9F5", "U+A9F6", "U+A9F7", "U+A9F8", "U+A9F9">>,
      <<"U+AA50", "U+AA51", "U+AA52", "U+AA53", "U+AA54", "U+AA55", "U+AA56", "U+AA57", "U+AA58", "U+AA59">>,
      <<"U+ABF0", "U+ABF1", "U+ABF2", "U+ABF3", "U+ABF4", "U+ABF5", "U+ABF6", "U+ABF7", "U+ABF8", "U+ABF9">>,
      <<"U+FF10", "U+FF11", "U+FF12", "U+FF13", "U+FF14", "U+FF15", "U+FF16", "U+FF17", "U+FF18", "U+FF19">>,
      <<"U+104A0", "U+104A1", "U+104A2", "U+104A3", "U+104A4", "U+104A5", "U+104A6", "U+104A7", "U+104A8", "U+104A9">>,
      <<"U+10D30", "U+10D31", "U+10D32", "U+10D33", "U+10D34", "U+10D35", "U+10D36", "U+10D37", "U+10D38", "U+10D39">>,
      <<"U+11066", "U+11067", "U+11068", "U+11069", "U+1106A", "U+1106B", "U+1106C", "U+1106D", "U+1106E", "U+1106F">>,
      <<"U+110F0", "U+110F1", "U+110F2", "U+110F3", "U+110F4", "U+110F5", "U+110F6", "U+110F7", "U+110F8", "U+110F9">>,
      <<"U+11136", "U+11137", "U+11138", "U+11139", "U+1113A", "U+1113B", "U+1113C", "U+1113D", "U+1113E", "U+1113F">>,
      <<"U+111D0", "U+111D1", "U+111D2", "U+111D3", "U+111D4", "U+111D5", "U+111D6", "U+111D7", "U+111D8", "U+111D9">>,
      <<"U+112F0", "U+112F1", "U+112F2", "U+112F3", "U+112F4", "U+112F5", "U+112F6", "U+112F7", "U+112F8", "U+112F9">>,
      <<"U+11450", "U+11451", "U+11452", "U+11453", "U+11454", "U+11455", "U+11456", "U+11457", "U+11458", "U+11459">>,
      <<"U+114D0", "U+114D1", "U+114D2", "U+114D3", "U+114D4", "U+114D5", "U+114D6", "U+114D7", "U+114D8", "U+114D9">>,
      <<"U+11650", "U+11651", "U+11652", "U+11653", "U+11654", "U+11655", "U+11656", "U+11657", "U+11658", "U+11659">>,
      <<"U+116C0", "U+116C1", "U+116C2", "U+116C3", "U+116C4", "U+116C5", "U+116C6", "U+116C7", "U+116C8", "U+116C9">>,
      <<"U+11730", "U+11731", "U+11732", "U+11733", "U+11734", "U+11735", "U+11736", "U+11737", "U+11738", "U+11739">>,
      <<"U+118E0", "U+118E1", "U+118E2", "U+118E3", "U+118E4", "U+118E5", "U+118E6", "U+118E7", "U+118E8", "U+118E9">>,
      <<"U+11950", "U+11951", "U+11952", "U+11953", "U+11954", "U+11955", "U+11956", "U+11957", "U+11958", "U+11959">>,
      <<"U+11C50", "U+11C51", "U+11C52", "U+11C53", "U+11C54", "U+11C55", "U+11C56", "U+11C57", "U+11C58", "U+11C59">>,
      <<"U+11D50", "U+11D51", "U+11D52", "U+11D53", "U+11D54", "U+11D55", "U+11D56", "U+11D57", "U+11D58", "U+11D59">>,
      <<"U+11DA0", "U+11DA1", "U+11DA2", "U+11DA3", "U+11DA4", "U+11DA5", "U+11DA6", "U+11DA7", "U+11DA8", "U+11DA9">>,
      <<"U+16A60", "U+16A61", "U+16A62", "U+16A63", "U+16A64", "U+16A65", "U+16A66", "U+16A67", "U+16A68", "U+16A69">>,
      <<"U+16AC0", "U+16AC1", "U+16AC2", "U+16AC3", "U+16AC4", "U+16AC5", "U+16AC6", "U+16AC7", "U+16AC8", "U+16AC9">>,
      <<"U+16B50", "U+16B51", "U+16B52", "U+16B53", "U+16B54", "U+16B55", "U+16B56", "U+16B57", "U+16B58", "U+16B59">>,
      <<"U+1D7CE", "U+1D7CF", "U+1D7D0", "U+1D7D1", "U+1D7D2", "U+1D7D3", "U+1D7D4", "U+1D7D5", "U+1D7D6", "U+1D7D7">>,
      <<"U+1D7D8", "U+1D7D9", "U+1D7DA", "U+1D7DB", "U+1D7DC", "U+1D7DD", "U+1D7DE", "U+1D7DF", "U+1D7E0", "U+1D7E1">>,
      <<"U+1D7E2", "U+1D7E3", "U+1D7E4", "U+1D7E5", "U+1D7E6", "U+1D7E7", "U+1D7E8", "U+1D7E9", "U+1D7EA", "U+1D7EB">>,
      <<"U+1D7EC", "U+1D7ED", "U+1D7EE", "U+1D7EF", "U+1D7F0", "U+1D7F1", "U+1D7F2", "U+1D7F3", "U+1D7F4", "U+1D7F5">>,
      <<"U+1D7F6", "U+1D7F7", "U+1D7F8", "U+1D7F9", "U+1D7FA", "U+1D7FB", "U+1D7FC", "U+1D7FD", "U+1D7FE", "U+1D7FF">>,
      <<"U+1E140", "U+1E141", "U+1E142", "U+1E143", "U+1E144", "U+1E145", "U+1E146", "U+1E147", "U+1E148", "U+1E149">>,
      <<"U+1E2F0", "U+1E2F1", "U+1E2F2", "U+1E2F3", "U+1E2F4", "U+1E2F5", "U+1E2F6", "U+1E2F7", "U+1E2F8", "U+1E2F9">>,
      <<"U+1E950", "U+1E951", "U+1E952", "U+1E953", "U+1E954", "U+1E955", "U+1E956", "U+1E957", "U+1E958", "U+1E959">>,
      <<"U+1FBF0", "U+1FBF1", "U+1FBF2", "U+1FBF3", "U+1FBF4", "U+1FBF5", "U+1FBF6", "U+1FBF7", "U+1FBF8", "U+1FBF9">>>>

DigitSet == {DecimalDigits[b][i] : b \in 1..Len(DecimalDigits), i \in 1..10}

\* the decimal value of every digit
DigitValues ==
    [c \in DigitSet |->
        (CHOOSE i \in 1..10 : \E b \in 1..Len(DecimalDigits) : DecimalDigits[b][i] = c) - 1]

IsDigit(c) == c \in DigitSet

DigitVal(c) == DigitValues[c]

\* the characters of str.isspace: what str.strip() removes
SpaceChars ==
    { "\t", "\n", "U+000B", "\f", "\r", "U+001C", "U+001D", "U+001E",
      "U+001F", " ", "U+0085", "U+00A0", "U+1680", "U+2000", "U+2001",
      "U+2002", "U+2003", "U+2004", "U+2005", "U+2006", "U+2007", "U+2008",
      "U+2009", "U+200A", "U+2028", "U+2029", "U+202F", "U+205F", "U+3000" }

\* str.isspace
IsSpace(c) == c \in SpaceChars

\* the whitespace int() skips around the number: the separators U+001C to
\* U+001F are not among it
IsIntSpace(c) == c \in SpaceChars \ {"U+001C", "U+001D", "U+001E", "U+001F"}

\* str.replace(ch, ""): drop every occurrence of the character ch
RECURSIVE Remove(_, _)
Remove(s, ch) ==
    IF s = <<>> THEN <<>>
    ELSE IF Head(s) = ch THEN Remove(Tail(s), ch)
    ELSE <<Head(s)>> \o Remove(Tail(s), ch)

RECURSIVE LStrip(_)
LStrip(s) ==
    IF s # <<>> /\ IsSpace(Head(s)) THEN LStrip(Tail(s)) ELSE s

RECURSIVE RStrip(_)
RStrip(s) ==
    IF s # <<>> /\ IsSpace(s[Len(s)]) THEN RStrip(SubSeq(s, 1, Len(s) - 1)) ELSE s

\* str.strip()
Strip(s) == RStrip(LStrip(s))

\* the text int() reads: without the whitespace around it
RECURSIVE IntStrip(_)
IntStrip(s) ==
    IF s # <<>> /\ IsIntSpace(Head(s)) THEN IntStrip(Tail(s))
    ELSE IF s # <<>> /\ IsIntSpace(s[Len(s)]) THEN IntStrip(SubSeq(s, 1, Len(s) - 1))
    ELSE s

\* decimal digits of n >= 0, most significant first
RECURSIVE Digits(_)
Digits(n) ==
    IF n < 10 THEN <<DigitChar[n + 1]>>
    ELSE Digits(n \div 10) \o <<DigitChar[(n % 10) + 1]>>

\* the "," format option: a separator before every group of three digits
RECURSIVE Group3(_, _)
Group3(ds, sep) ==
    IF Len(ds) <= 3 THEN ds
    ELSE Group3(SubSeq(ds, 1, Len(ds) - 3), sep) \o <<sep>>
         \o SubSeq(ds, Len(ds) - 2, Len(ds))

Abs(n) == IF n < 0 THEN 0 - n ELSE n

\* faulty variant of format_rubles: the thousands are not set apart
format_rubles_ungrouped(amount) ==
    (IF amount < 0 THEN <<"-">> ELSE <<>>) \o Digits(Abs(amount)) \o <<" ", "RUB">>

\* f"{amount:,} RUB".replace(",", " ")
format_rubles(amount) ==
    LET grouped == (IF amount < 0 THEN <<"-">> ELSE <<>>)
                   \o Group3(Digits(Abs(amount)), ",")
        text    == grouped \o <<" ", "RUB">>
    IN  [i \in 1..Len(text) |-> IF text[i] = "," THEN " " ELSE text[i]]

---------------------------------------------------------------------------
(* int(str): the ValueError cases and the value *)

\* digits with single underscores between them: d(_?d)*
RECURSIVE IsDigitRun(_)
IsDigitRun(s) ==
    /\ s # <<>>
    /\ IsDigit(Head(s))
    /\ \/ Len(s) = 1
       \/ IsDigitRun(Tail(s))
       \/ Len(s) >= 3 /\ s[2] = "_" /\ IsDigitRun(Tail(Tail(s)))

RECURSIVE DigitRunVal(_, _)
DigitRunVal(s, acc) ==
    IF s = <<>> THEN acc
    ELSE IF Head(s) = "_" THEN DigitRunVal(Tail(s), acc)
    ELSE DigitRunVal(Tail(s), acc * 10 + DigitVal(Head(s)))

HasSign(s) == s # <<>> /\ Head(s) \in {"+", "-"}

Unsigned(s) == IF HasSign(s) THEN Tail(s) ELSE s

\* int(s) returns (TRUE) or raises ValueError (FALSE)
IntParses(s) == IsDigitRun(Unsigned(IntStrip(s)))

\* int(s) where it returns
IntValue(s) ==
    LET t == IntStrip(s)
        v == DigitRunVal(Unsigned(t), 0)
    IN  IF HasSign(t) /\ Head(t) = "-" THEN 0 - v ELSE v

\* message.text.replace(" ", "").replace(",", "")
Cleaned(text) == Remove(Remove(text, " "), ",")

\* int(message.text.replace(" ", "").replace(",", "")): ok is FALSE where
\* int raises ValueError
ParseAmount(text) ==
    IF IntParses(Cleaned(text))
    THEN [ok |-> TRUE, value |-> IntValue(Cleaned(text))]
    ELSE [ok |-> FALSE, value |-> 0]

---------------------------------------------------------------------------
(* Python dict helpers *)

EmptyDict == <<>>

HasKey(d, k) == k \in DOMAIN d

\* d[k] = v
Put(d, k, v) == [x \in (DOMAIN d) \cup {k} |-> IF x = k THEN v ELSE d[x]]

\* d.get(k, default)
Get(d, k, default) == IF HasKey(d, k) THEN d[k] ELSE default

Max(a, b) == IF a >= b THEN a ELSE b

---------------------------------------------------------------------------
(* The calculator *)

\* the default goal name of calculate_results (transliterated)
DefaultGoalName ==
    <<"f", "i", "n", "a", "n", "s", "o", "v", "u", "ju", " ", "c", "e", "l", "soft">>

days_in_month == 30

\* what calculate_results returns, from its intermediate values
Results(data, total_income, fixed_expenses, goal_months,
        monthly_contribution, monthly_budget, daily_limit) ==
    [total_income         |-> total_income,
     fixed_expenses       |-> fixed_expenses,
     monthly_contribution |-> monthly_contribution,
     monthly_budget       |-> monthly_budget,
     daily_limit          |-> daily_limit,
     goal_name            |-> IF "goal_name" \in DOMAIN data
                              THEN data["goal_name"] ELSE DefaultGoalName,
     goal_months          |-> goal_months]

\* faulty variant of calculate_results: the contribution is rounded down
calculate_results_floor(data) ==
    LET total_income   == Get(data, "salary", 0) + Get(data, "other_income", 0)
        fixed_expenses == Get(data, "rent", 0) + Get(data, "transport", 0)
                          + Get(data, "other_bills", 0)
        goal_months    == Max(1, Get(data, "goal_months", 1))
        monthly_contribution == Get(data, "goal_amount", 0) \div goal_months
        monthly_budget == total_income - fixed_expenses - monthly_contribution
    IN  Results(data, total_income, fixed_expenses, goal_months,
                monthly_contribution, monthly_budget,
                IF monthly_budget > 0 THEN monthly_budget \div days_in_month ELSE 0)

\* faulty variant of calculate_results: the daily limit of a deficit is not floored to 0
calculate_results_signed(data) ==
    LET total_income   == Get(data, "salary", 0) + Get(data, "other_income", 0)
        fixed_expenses == Get(data, "rent", 0) + Get(data, "transport", 0)
                          + Get(data, "other_bills", 0)
        goal_months    == Max(1, Get(data, "goal_months", 1))
        monthly_contribution ==
            (Get(data, "goal_amount", 0) + goal_months - 1) \div goal_months
        monthly_budget == total_income - fixed_expenses - monthly_contribution
    IN  Results(data, total_income, fixed_expenses, goal_months,
                monthly_contribution, monthly_budget,
                monthly_budget \div days_in_month)

\* faulty variant of calculate_results: only goal_months = 0 is coerced to 1, a
\* negative one is taken by its magnitude
calculate_results_magnitude(data) ==
    LET total_income   == Get(data, "salary", 0) + Get(data, "other_income", 0)
        fixed_expenses == Get(data, "rent", 0) + Get(data, "transport", 0)
                          + Get(data, "other_bills", 0)
        goal_months    == Max(1, Abs(Get(data, "goal_months", 1)))
        monthly_contribution ==
            (Get(data, "goal_amount", 0) + goal_months - 1) \div goal_months
        monthly_budget == total_income - fixed_expenses - monthly_contribution
    IN  Results(data, total_income, fixed_expenses, goal_months,
                monthly_contribution, monthly_budget,
                IF monthly_budget > 0 THEN monthly_budget \div days_in_month ELSE 0)

calculate_results(data) ==
    LET salary       == Get(data, "salary", 0)
        other_income == Get(data, "other_income", 0)
        total_income == salary + other_income
        rent         == Get(data, "rent", 0)
        transport    == Get(data, "transport", 0)
        other_bills  == Get(data, "other_bills", 0)
        fixed_expenses == rent + transport + other_bills
        goal_amount  == Get(data, "goal_amount", 0)
        goal_months  == Max(1, Get(data, "goal_months", 1))
        monthly_contribution == (goal_amount + goal_months - 1) \div goal_months
        monthly_budget == total_income - fixed_expenses - monthly_contribution
        daily_limit  == IF monthly_budget > 0
                        THEN monthly_budget \div days_in_month ELSE 0
    IN  [total_income         |-> total_income,
         fixed_expenses       |-> fixed_expenses,
         monthly_contribution |-> monthly_contribution,
         monthly_budget       |-> monthly_budget,
         daily_limit          |-> daily_limit,
         goal_name            |-> Get(data, "goal_name", DefaultGoalName),
         goal_months          |-> goal_months]

---------------------------------------------------------------------------
(* Button labels and commands (transliterated, one token per character) *)

\* "[x] Otmenit' raschet": the text every collection handler compares with
CancelText ==
    <<"[x]", " ", "O", "t", "m", "e", "n", "i", "t", "soft", " ",
      "r", "a", "s", "ch", "e", "t">>

\* "[$] Rasschitat' bjudzhet"
StartText ==
    <<"[$]", " ", "R", "a", "s", "s", "ch", "i", "t", "a", "t", "soft", " ",
      "b", "ju", "d", "zh", "e", "t">>

\* "[#] Primer rascheta"
ExampleText ==
    <<"[#]", " ", "P", "r", "i", "m", "e", "r", " ",
      "r", "a", "s", "ch", "e", "t", "a">>

\* "[?] Pomoshch'"
HelpText == <<"[?]", " ", "P", "o", "m", "o", "shch", "soft">>

\* "[>>] Propustit'": the skip button
SkipText ==
    <<"[>>]", " ", "P", "r", "o", "p", "u", "s", "t", "i", "t", "soft">>

\* the buttons of get_main_keyboard
get_main_keyboard == {StartText, ExampleText, HelpText}

\* the button of get_cancel_keyboard
get_cancel_keyboard == {CancelText}

\* the buttons of get_skip_keyboard; its cancel button reads "[x] Otmenit'"
SkipKeyboardCancel == <<"[x]", " ", "O", "t", "m", "e", "n", "i", "t", "soft">>

get_skip_keyboard == {SkipText, SkipKeyboardCancel}

CommandStart == <<"/", "s", "t", "a", "r", "t">>

CommandHelp == <<"/", "h", "e", "l", "p">>

---------------------------------------------------------------------------
(* Inbound messages *)

\* a text message: message.caption is None (the empty caption here)
Msg(t) == [has_text |-> TRUE, text |-> t, caption |-> <<>>]

\* a message without text or caption (sticker, ...): message.text is None
NoText == [has_text |-> FALSE, text |-> <<>>, caption |-> <<>>]

\* a photo with a caption: message.text is None
Photo(c) == [has_text |-> FALSE, text |-> <<>>, caption |-> c]

\* the username of the bot (bot.me().username), given with the token
BotUsername == <<"c", "f", "o", "_", "b", "o", "t">>

\* "/start@CFO_bot": the command with the bot mentioned, as sent in groups
MentionStart == CommandStart \o <<"@", "C", "F", "O">> \o <<"_", "b", "o", "t">>

\* "/start@other_bot": the command of another bot
OtherBotStart == CommandStart \o <<"@", "o", "t", "h", "e", "r", "_", "b", "o", "t">>

\* the sample amounts as users type them, thousands apart: "3 000"
AmountTexts == {Group3(Digits(SampleAmounts[i]), " ") : i \in 1..NumAmounts}

\* an amount typed with an Arabic-Indic and a fullwidth digit, a no-break
\* space before it and a carriage return after it: int() reads 3000
UnicodeAmountText == <<"U+00A0", "U+0663", " ", "0", "0", "U+FF10", "\r">>

\* a digit after a file separator: str.strip() removes U+001C, int() raises
SeparatorText == <<"U+001C", "7">>

SampleTexts ==
    AmountTexts \cup
    { UnicodeAmountText, SeparatorText,
      <<"0">>,
      <<"-", "7">>,                     \* parses, violates every bound
      <<"a">>,                          \* one character, not a number
      <<" ", "a", "b", " ">>,           \* surrounded by whitespace, not a number
      <<" ">>,                          \* whitespace only
      CancelText, SkipKeyboardCancel, SkipText, StartText, ExampleText,
      HelpText, CommandStart, CommandHelp }

Messages ==
    {Msg(t) : t \in SampleTexts} \cup {Msg(MentionStart), NoText, Photo(CommandStart)}

TextIs(msg, t) == msg.has_text /\ msg.text = t

\* outcome of the message.answer calls of one handler run: "first" the
\* answer of the normal path, "failure" the answer of an except block
AllSent == [first |-> TRUE, failure |-> TRUE]

SendOutcomes == [first : BOOLEAN, failure : BOOLEAN]

---------------------------------------------------------------------------
(* FSM states *)

Idle == "None"

BudgetStates ==
    <<"waiting_for_salary", "waiting_for_other_income", "waiting_for_rent",
      "waiting_for_transport", "waiting_for_other_bills",
      "waiting_for_goal_name", "waiting_for_goal_amount",
      "waiting_for_goal_months">>

StateSet == {BudgetStates[i] : i \in 1..Len(BudgetStates)}

---------------------------------------------------------------------------
(* Results of a handler run *)

\* a message.answer (kind, body, reply_markup) or an escaped exception
Out(u, h, kind, body, markup) ==
    [user |-> u, handler |-> h, kind |-> kind, body |-> body, keyboard |-> markup]

NoMarkup == {}

Res(ud, st, o) == [user_data |-> ud, fsm |-> st, out |-> o]

\* an exception leaves the handler: aiogram logs it, the handler's remaining
\* statements are not run; at names the statement that raised
Raise(ud, st, u, h, exc, at) ==
    Res(ud, st, Out(u, h, "raised", [exception |-> exc, at |-> at], NoMarkup))

\* await state.set_state(s) / await state.clear()
SetState(st, u, s) == [st EXCEPT ![u] = s]

\* user_data[u][field] = value
Store(ud, u, field, value) == [ud EXCEPT ![u] = Put(ud[u], field, value)]


---------------------------------------------------------------------------
(* The conversions of the sample texts, computed once *)

AmountMemo == [t \in SampleTexts |-> ParseAmount(t)]

\* ParseAmount(text)
Amount(text) ==
    IF text \in DOMAIN AmountMemo THEN AmountMemo[text] ELSE ParseAmount(text)

StripMemo == [t \in SampleTexts |-> Strip(t)]

\* Strip(text)
Stripped(text) ==
    IF text \in DOMAIN StripMemo THEN StripMemo[text] ELSE Strip(text)

---------------------------------------------------------------------------
(* Handlers. S is the state before: [user_data, fsm]; sent tells which of   *)
(* the handler's message.answer calls succeed. Each returns Res(...).       *)

cmd_start(S, u, msg, sent) ==
    IF sent.first
    THEN Res(S.user_data, S.fsm, Out(u, "cmd_start", "help", <<>>, get_main_keyboard))
    ELSE Raise(S.user_data, S.fsm, u, "cmd_start", "TelegramAPIError", "answer")

cmd_help(S, u, msg, sent) == cmd_start(S, u, msg, sent)

\* the goal of example_text: "Otpusk na more"
ExampleGoalName ==
    <<"O", "t", "p", "u", "s", "k", " ", "n", "a", " ", "m", "o", "r", "e">>

\* the figures example_text displays, as written there
example_text ==
    [salary               |-> <<"7", "0", " ", "0", "0", "0", " ", "RUB">>,
     other_income         |-> <<"2", "0", " ", "0", "0", "0", " ", "RUB">>,
     total_income         |-> <<"9", "0", " ", "0", "0", "0", " ", "RUB">>,
     rent                 |-> <<"3", "0", " ", "0", "0", "0", " ", "RUB">>,
     transport            |-> <<"6", " ", "0", "0", "0", " ", "RUB">>,
     other_bills          |-> <<"0", " ", "RUB">>,
     fixed_expenses       |-> <<"3", "6", " ", "0", "0", "0", " ", "RUB">>,
     goal_name            |-> ExampleGoalName,
     goal_amount          |-> <<"1", "5", "0", " ", "0", "0", "0", " ", "RUB">>,
     goal_months          |-> <<"1", "0">>,
     monthly_contribution |-> <<"1", "5", " ", "0", "0", "0", " ", "RUB">>,
     monthly_budget       |-> <<"3", "9", " ", "0", "0", "0", " ", "RUB">>,
     daily_limit          |-> <<"1", " ", "3", "0", "0", " ", "RUB">>]

show_example(S, u, msg, sent) ==
    IF sent.first
    THEN Res(S.user_data, S.fsm,
             Out(u, "show_example", "example", example_text, get_main_keyboard))
    ELSE Raise(S.user_data, S.fsm, u, "show_example", "TelegramAPIError", "answer")

\* faulty variant of ResetUser: the records of all users are emptied
ResetUser_all(ud, u) ==
    [x \in (DOMAIN ud) \cup {u} |-> EmptyDict]

\* user_data[u] = {}
ResetUser(ud, u) ==
    [x \in (DOMAIN ud) \cup {u} |-> IF x = u THEN EmptyDict ELSE ud[x]]

start_calculation(S, u, msg, sent) ==
    IF sent.first
    THEN Res(ResetUser(S.user_data, u), SetState(S.fsm, u, "waiting_for_salary"),
             Out(u, "start_calculation", "prompt", <<>>, get_cancel_keyboard))
    ELSE Raise(ResetUser(S.user_data, u), S.fsm, u, "start_calculation",
               "TelegramAPIError", "answer")

cancel_calculation(S, u, msg, sent) ==
    IF sent.first
    THEN Res(S.user_data, SetState(S.fsm, u, Idle),
             Out(u, "cancel_calculation", "cancelled", <<>>, get_main_keyboard))
    ELSE Raise(S.user_data, SetState(S.fsm, u, Idle), u, "cancel_calculation",
               "TelegramAPIError", "answer")

\* the except ValueError branch of a collection handler: the re-prompt
Reprompt(S, u, h, sent) ==
    IF sent.first
    THEN Res(S.user_data, S.fsm, Out(u, h, "reprompt", <<>>, NoMarkup))
    ELSE Raise(S.user_data, S.fsm, u, h, "TelegramAPIError", "reprompt")

\* the tail of an accepting collection handler: store, answer, set_state
Accept(S, u, h, field, value, echo, markup, next, sent) ==
    IF ~HasKey(S.user_data, u)
    THEN Raise(S.user_data, S.fsm, u, h, "KeyError", "store")
    ELSE IF sent.first
    THEN Res(Store(S.user_data, u, field, value), SetState(S.fsm, u, next),
             Out(u, h, "prompt", [echo |-> echo], markup))
    ELSE Raise(Store(S.user_data, u, field, value), S.fsm, u, h,
               "TelegramAPIError", "answer")


\* faulty variant of process_salary: the value is stored before its bound is checked
process_salary_store_first(S, u, msg, sent) ==
    IF TextIs(msg, CancelText) THEN cancel_calculation(S, u, msg, sent)
    ELSE IF ~msg.has_text
    THEN Raise(S.user_data, S.fsm, u, "process_salary", "AttributeError", "message.text")
    ELSE IF ~Amount(msg.text).ok
    THEN Reprompt(S, u, "process_salary", sent)
    ELSE IF Amount(msg.text).value <= 0
    THEN Reprompt([S EXCEPT !.user_data =
                      Store(S.user_data, u, "salary", Amount(msg.text).value)],
                  u, "process_salary", sent)
    ELSE Accept(S, u, "process_salary", "salary", Amount(msg.text).value,
                format_rubles(Amount(msg.text).value),
                get_skip_keyboard, "waiting_for_other_income", sent)

process_salary(S, u, msg, sent) ==
    IF TextIs(msg, CancelText) THEN cancel_calculation(S, u, msg, sent)
    ELSE IF ~msg.has_text
    THEN Raise(S.user_data, S.fsm, u, "process_salary", "AttributeError", "message.text")
    ELSE IF ~Amount(msg.text).ok \/ Amount(msg.text).value <= 0
    THEN Reprompt(S, u, "process_salary", sent)
    ELSE Accept(S, u, "process_salary", "salary", Amount(msg.text).value,
                format_rubles(Amount(msg.text).value),
                get_skip_keyboard, "waiting_for_other_income", sent)

process_other_income(S, u, msg, sent) ==
    IF TextIs(msg, CancelText) THEN cancel_calculation(S, u, msg, sent)
    ELSE IF TextIs(msg, SkipText)
    THEN Accept(S, u, "process_other_income", "other_income", 0,
                format_rubles(0), get_cancel_keyboard, "waiting_for_rent", sent)
    ELSE IF ~msg.has_text
    THEN Raise(S.user_data, S.fsm, u, "process_other_income", "AttributeError", "message.text")
    ELSE IF ~Amount(msg.text).ok \/ Amount(msg.text).value < 0
    THEN Reprompt(S, u, "process_other_income", sent)
    ELSE Accept(S, u, "process_other_income", "other_income", Amount(msg.text).value,
                format_rubles(Amount(msg.text).value),
                get_cancel_keyboard, "waiting_for_rent", sent)

process_rent(S, u, msg, sent) ==
    IF TextIs(msg, CancelText) THEN cancel_calculation(S, u, msg, sent)
    ELSE IF ~msg.has_text
    THEN Raise(S.user_data, S.fsm, u, "process_rent", "AttributeError", "message.text")
    ELSE IF ~Amount(msg.text).ok \/ Amount(msg.text).value < 0
    THEN Reprompt(S, u, "process_rent", sent)
    ELSE Accept(S, u, "process_rent", "rent", Amount(msg.text).value,
                format_rubles(Amount(msg.text).value),
                get_cancel_keyboard, "waiting_for_transport", sent)

process_transport(S, u, msg, sent) ==
    IF TextIs(msg, CancelText) THEN cancel_calculation(S, u, msg, sent)
    ELSE IF ~msg.has_text
    THEN Raise(S.user_data, S.fsm, u, "process_transport", "AttributeError", "message.text")
    ELSE IF ~Amount(msg.text).ok \/ Amount(msg.text).value < 0
    THEN Reprompt(S, u, "process_transport", sent)
    ELSE Accept(S, u, "process_transport", "transport", Amount(msg.text).value,
                format_rubles(Amount(msg.text).value),
                get_skip_keyboard, "waiting_for_other_bills", sent)


\* faulty variant of process_other_bills: a skip advances without storing the 0
process_other_bills_skip_unstored(S, u, msg, sent) ==
    IF TextIs(msg, CancelText) THEN cancel_calculation(S, u, msg, sent)
    ELSE IF TextIs(msg, SkipText)
    THEN Res(S.user_data, SetState(S.fsm, u, "waiting_for_goal_name"),
             Out(u, "process_other_bills", "prompt", [echo |-> format_rubles(0)],
                 get_cancel_keyboard))
    ELSE IF ~msg.has_text
    THEN Raise(S.user_data, S.fsm, u, "process_other_bills", "AttributeError", "message.text")
    ELSE IF ~Amount(msg.text).ok \/ Amount(msg.text).value < 0
    THEN Reprompt(S, u, "process_other_bills", sent)
    ELSE Accept(S, u, "process_other_bills", "other_bills", Amount(msg.text).value,
                format_rubles(Amount(msg.text).value),
                get_cancel_keyboard, "waiting_for_goal_name", sent)

process_other_bills(S, u, msg, sent) ==
    IF TextIs(msg, CancelText) THEN cancel_calculation(S, u, msg, sent)
    ELSE IF TextIs(msg, SkipText)
    THEN Accept(S, u, "process_other_bills", "other_bills", 0,
                format_rubles(0), get_cancel_keyboard, "waiting_for_goal_name", sent)
    ELSE IF ~msg.has_text
    THEN Raise(S.user_data, S.fsm, u, "process_other_bills", "AttributeError", "message.text")
    ELSE IF ~Amount(msg.text).ok \/ Amount(msg.text).value < 0
    THEN Reprompt(S, u, "process_other_bills", sent)
    ELSE Accept(S, u, "process_other_bills", "other_bills", Amount(msg.text).value,
                format_rubles(Amount(msg.text).value),
                get_cancel_keyboard, "waiting_for_goal_name", sent)

\* the shortest goal name process_goal_name accepts
MinGoalNameLen == 2

process_goal_name(S, u, msg, sent) ==
    IF TextIs(msg, CancelText) THEN cancel_calculation(S, u, msg, sent)
    ELSE IF ~msg.has_text
    THEN Raise(S.user_data, S.fsm, u, "process_goal_name", "AttributeError", "message.text")
    ELSE IF Len(Stripped(msg.text)) < MinGoalNameLen
    THEN Reprompt(S, u, "process_goal_name", sent)
    ELSE Accept(S, u, "process_goal_name", "goal_name", Stripped(msg.text),
                Stripped(msg.text),
                get_cancel_keyboard, "waiting_for_goal_amount", sent)

process_goal_amount(S, u, msg, sent) ==
    IF TextIs(msg, CancelText) THEN cancel_calculation(S, u, msg, sent)
    ELSE IF ~msg.has_text
    THEN Raise(S.user_data, S.fsm, u, "process_goal_amount", "AttributeError", "message.text")
    ELSE IF ~Amount(msg.text).ok \/ Amount(msg.text).value <= 0
    THEN Reprompt(S, u, "process_goal_amount", sent)
    ELSE Accept(S, u, "process_goal_amount", "goal_amount", Amount(msg.text).value,
                format_rubles(Amount(msg.text).value),
                get_cancel_keyboard, "waiting_for_goal_months", sent)

\* the figures the report f-string of process_goal_months prints
Report(data, results, goal_months) ==
    [salary               |-> format_rubles(data["salary"]),
     other_income         |-> format_rubles(Get(data, "other_income", 0)),
     total_income         |-> format_rubles(results.total_income),
     rent                 |-> format_rubles(data["rent"]),
     transport            |-> format_rubles(data["transport"]),
     other_bills          |-> format_rubles(Get(data, "other_bills", 0)),
     fixed_expenses       |-> format_rubles(results.fixed_expenses),
     goal_name            |-> results.goal_name,
     goal_amount          |-> format_rubles(data["goal_amount"]),
     goal_months          |-> Digits(goal_months),
     monthly_contribution |-> format_rubles(results.monthly_contribution),
     monthly_budget       |-> format_rubles(results.monthly_budget),
     daily_limit          |-> format_rubles(results.daily_limit)]

\* the keys the report f-string subscripts: a missing one raises KeyError
ReportKeys == {"salary", "rent", "transport", "goal_amount"}

\* the except Exception branch of process_goal_months
UnexpectedError(ud, st, u, sent) ==
    IF sent.failure
    THEN Res(ud, SetState(st, u, Idle),
             Out(u, "process_goal_months", "failure", <<>>, get_main_keyboard))
    ELSE Raise(ud, st, u, "process_goal_months", "TelegramAPIError",
               "failure notice")


\* faulty variant of Calculate: the results are computed before goal_months is stored
Calculate_before_store(S, u, goal_months, sent) ==
    IF ~HasKey(S.user_data, u)
    THEN UnexpectedError(S.user_data, S.fsm, u, sent)
    ELSE IF ~(ReportKeys \subseteq DOMAIN S.user_data[u]) \/ ~sent.first
    THEN UnexpectedError(Store(S.user_data, u, "goal_months", goal_months),
                         S.fsm, u, sent)
    ELSE Res(Store(S.user_data, u, "goal_months", goal_months),
             SetState(S.fsm, u, Idle),
             Out(u, "process_goal_months", "report",
                 Report(S.user_data[u], calculate_results(S.user_data[u]),
                        goal_months),
                 get_main_keyboard))

\* faulty variant of Calculate: the report is sent, the state is not cleared
Calculate_no_clear(S, u, goal_months, sent) ==
    IF ~HasKey(S.user_data, u)
    THEN UnexpectedError(S.user_data, S.fsm, u, sent)
    ELSE IF ~(ReportKeys \subseteq DOMAIN S.user_data[u]) \/ ~sent.first
    THEN UnexpectedError(Store(S.user_data, u, "goal_months", goal_months),
                         S.fsm, u, sent)
    ELSE Res(Store(S.user_data, u, "goal_months", goal_months),
             S.fsm,
             Out(u, "process_goal_months", "report",
                 Report(Put(S.user_data[u], "goal_months", goal_months),
                        calculate_results(
                            Put(S.user_data[u], "goal_months", goal_months)),
                        goal_months),
                 get_main_keyboard))

\* the try block of process_goal_months from the store on (lines 447-500)
Calculate(S, u, goal_months, sent) ==
    IF ~HasKey(S.user_data, u)
    THEN UnexpectedError(S.user_data, S.fsm, u, sent)
    ELSE IF ~(ReportKeys \subseteq DOMAIN S.user_data[u]) \/ ~sent.first
    THEN UnexpectedError(Store(S.user_data, u, "goal_months", goal_months),
                         S.fsm, u, sent)
    ELSE Res(Store(S.user_data, u, "goal_months", goal_months),
             SetState(S.fsm, u, Idle),
             Out(u, "process_goal_months", "report",
                 Report(Put(S.user_data[u], "goal_months", goal_months),
                        calculate_results(
                            Put(S.user_data[u], "goal_months", goal_months)),
                        goal_months),
                 get_main_keyboard))

process_goal_months(S, u, msg, sent) ==
    IF TextIs(msg, CancelText) THEN cancel_calculation(S, u, msg, sent)
    ELSE IF ~msg.has_text THEN UnexpectedError(S.user_data, S.fsm, u, sent)
    ELSE IF ~Amount(msg.text).ok \/ Amount(msg.text).value <= 0
    THEN Reprompt(S, u, "process_goal_months", sent)
    ELSE Calculate(S, u, Amount(msg.text).value, sent)

---------------------------------------------------------------------------
(* Dispatch: aiogram calls the first registered handler whose filters pass *)

\* text.split(maxsplit=1)[0]: the first whitespace-separated word
RECURSIVE UpToSpace(_)
UpToSpace(s) ==
    IF s = <<>> \/ IsSpace(Head(s)) THEN <<>>
    ELSE <<Head(s)>> \o UpToSpace(Tail(s))

FirstWord(text) == UpToSpace(LStrip(text))

\* str.partition(ch): the part before the first ch, and the part after it
RECURSIVE Before(_, _)
Before(s, ch) ==
    IF s = <<>> \/ Head(s) = ch THEN <<>>
    ELSE <<Head(s)>> \o Before(Tail(s), ch)

RECURSIVE After(_, _)
After(s, ch) ==
    IF s = <<>> THEN <<>>
    ELSE IF Head(s) = ch THEN Tail(s)
    ELSE After(Tail(s), ch)

UpperChars ==
    <<"A", "B", "C", "D", "E", "F", "G", "H", "I", "J", "K", "L", "M",
      "N", "O", "P", "Q", "R", "S", "T", "U", "V", "W", "X", "Y", "Z">>

LowerChars ==
    <<"a", "b", "c", "d", "e", "f", "g", "h", "i", "j", "k", "l", "m",
      "n", "o", "p", "q", "r", "s", "t", "u", "v", "w", "x", "y", "z">>

\* the characters x with x.lower() == c.lower(), for a character c of a bot's
\* username (ASCII letters, digits and underscores): c in both letter cases
\* and, for the letter k, the Kelvin sign U+212A, the one character outside
\* ASCII that str.lower() maps to ASCII
LoweredTo(c) ==
    {c}
    \cup {UpperChars[k] : k \in {j \in 1..Len(LowerChars) : LowerChars[j] = c}}
    \cup {LowerChars[k] : k \in {j \in 1..Len(UpperChars) : UpperChars[j] = c}}
    \cup (IF c \in {"k", "K"} THEN {"U+212A"} ELSE {})

\* mention.lower() == me.username.lower(): str.lower() maps every character
\* outside ASCII but U+212A to characters outside ASCII, so the two are equal
\* exactly when they are character by character
MentionsBot(mention) ==
    /\ Len(mention) = Len(BotUsername)
    /\ \A i \in 1..Len(mention) : mention[i] \in LoweredTo(BotUsername[i])

\* message.text or message.caption
CommandText(msg) ==
    IF msg.has_text /\ msg.text # <<>> THEN msg.text ELSE msg.caption

\* the filter Command("start", "help") of aiogram: the first word of the text
\* or caption is the prefix "/", then the command, then optionally "@" and a
\* mention; the command is start or help, and a mention that is not empty is
\* the bot's username, letter case ignored
PassesCommand(msg) ==
    /\ FirstWord(CommandText(msg)) # <<>>
    /\ Head(FirstWord(CommandText(msg))) = "/"
    /\ Before(Tail(FirstWord(CommandText(msg))), "@")
           \in {Tail(CommandStart), Tail(CommandHelp)}
    /\ \/ After(Tail(FirstWord(CommandText(msg))), "@") = <<>>
       \/ MentionsBot(After(Tail(FirstWord(CommandText(msg))), "@"))

\* the messages the filter Command("start", "help") passes
CommandMessages == {m \in Messages : PassesCommand(m)}

IsCommand(msg) ==
    IF msg \in Messages THEN msg \in CommandMessages ELSE PassesCommand(msg)


\* faulty variant of Dispatch: the state handlers are registered before the commands
Dispatch_state_first(msg, state) ==
    IF state = "waiting_for_salary" THEN "process_salary"
    ELSE IF state = "waiting_for_other_income" THEN "process_other_income"
    ELSE IF state = "waiting_for_rent" THEN "process_rent"
    ELSE IF state = "waiting_for_transport" THEN "process_transport"
    ELSE IF state = "waiting_for_other_bills" THEN "process_other_bills"
    ELSE IF state = "waiting_for_goal_name" THEN "process_goal_name"
    ELSE IF state = "waiting_for_goal_amount" THEN "process_goal_amount"
    ELSE IF state = "waiting_for_goal_months" THEN "process_goal_months"
    ELSE IF IsCommand(msg) THEN "cmd_start"
    ELSE IF TextIs(msg, HelpText) THEN "cmd_help"
    ELSE IF TextIs(msg, ExampleText) THEN "show_example"
    ELSE IF TextIs(msg, StartText) THEN "start_calculation"
    ELSE "unhandled"

\* the handler that gets the message: the filters in registration order
\* (the decorators at lines 148, 173, 178, 217, 236, ..., 435), or "unhandled"
Dispatch(msg, state) ==
    IF IsCommand(msg) THEN "cmd_start"
    ELSE IF TextIs(msg, HelpText) THEN "cmd_help"
    ELSE IF TextIs(msg, ExampleText) THEN "show_example"
    ELSE IF TextIs(msg, StartText) THEN "start_calculation"
    ELSE IF state = "waiting_for_salary" THEN "process_salary"
    ELSE IF state = "waiting_for_other_income" THEN "process_other_income"
    ELSE IF state = "waiting_for_rent" THEN "process_rent"
    ELSE IF state = "waiting_for_transport" THEN "process_transport"
    ELSE IF state = "waiting_for_other_bills" THEN "process_other_bills"
    ELSE IF state = "waiting_for_goal_name" THEN "process_goal_name"
    ELSE IF state = "waiting_for_goal_amount" THEN "process_goal_amount"
    ELSE IF state = "waiting_for_goal_months" THEN "process_goal_months"
    ELSE "unhandled"

\* the handler h run on the update
Run(h, S, u, msg, sent) ==
    CASE h = "cmd_start"            -> cmd_start(S, u, msg, sent)
      [] h = "cmd_help"             -> cmd_help(S, u, msg, sent)
      [] h = "show_example"         -> show_example(S, u, msg, sent)
      [] h = "start_calculation"    -> start_calculation(S, u, msg, sent)
      [] h = "process_salary"       -> process_salary(S, u, msg, sent)
      [] h = "process_other_income" -> process_other_income(S, u, msg, sent)
      [] h = "process_rent"         -> process_rent(S, u, msg, sent)
      [] h = "process_transport"    -> process_transport(S, u, msg, sent)
      [] h = "process_other_bills"  -> process_other_bills(S, u, msg, sent)
      [] h = "process_goal_name"    -> process_goal_name(S, u, msg, sent)
      [] h = "process_goal_amount"  -> process_goal_amount(S, u, msg, sent)
      [] h = "process_goal_months"  -> process_goal_months(S, u, msg, sent)
      [] OTHER -> Res(S.user_data, S.fsm, Out(u, "unhandled", "none", <<>>, NoMarkup))

\* what handling one update does: dispatch, then the handler
Handle(S, u, msg, sent) == Run(Dispatch(msg, S.fsm[u]), S, u, msg, sent)

---------------------------------------------------------------------------
(* History: what the user replied in the current dialogue *)

FieldOf(state) ==
    CASE state = "waiting_for_salary"       -> "salary"
      [] state = "waiting_for_other_income" -> "other_income"
      [] state = "waiting_for_rent"         -> "rent"
      [] state = "waiting_for_transport"    -> "transport"
      [] state = "waiting_for_other_bills"  -> "other_bills"
      [] state = "waiting_for_goal_name"    -> "goal_name"
      [] state = "waiting_for_goal_amount"  -> "goal_amount"
      [] state = "waiting_for_goal_months"  -> "goal_months"

\* the value a reply stands for at a step
ReplyValue(state, msg) ==
    IF state = "waiting_for_goal_name" THEN Stripped(msg.text)
    ELSE Amount(msg.text).value

\* d without the key k
Without_key(d, k) == [x \in (DOMAIN d) \ {k} |-> d[x]]

\* dialogue[u]: emptied by a start; an accepted reply puts its value under the
\* step's field, an accepted skip leaves the step without a reply (the last
\* signal accepted at a step is the one that counts)
NextDialogue(h, u, msg, kind) ==
    IF h = "start_calculation"
    THEN [dialogue EXCEPT ![u] = EmptyDict]
    ELSE IF kind \notin {"prompt", "report"}
    THEN dialogue
    ELSE IF /\ h \in {"process_other_income", "process_other_bills"}
            /\ TextIs(msg, SkipText)
    THEN [dialogue EXCEPT ![u] = Without_key(@, FieldOf(fsm[u]))]
    ELSE [dialogue EXCEPT ![u] = Put(@, FieldOf(fsm[u]), ReplyValue(fsm[u], msg))]

---------------------------------------------------------------------------
(* The state machine *)

Current == [user_data |-> user_data, fsm |-> fsm]

NoOut == Out("nobody", "none", "none", <<>>, NoMarkup)

\* the outcomes of message.answer in this run
Sends == IF net > 0 THEN SendOutcomes ELSE {AllSent}

InitState ==
    /\ user_data = EmptyDict
    /\ fsm = [u \in Users |-> Idle]
    /\ out = NoOut
    /\ dialogue = [u \in Users |-> EmptyDict]
    /\ tasks = <<>>

Init == InitState /\ net = 0

\* main() polls with dp.start_polling(bot): every update is handled in a task
\* of its own and the dispatcher has no per-user isolation of events, so a
\* handler suspended at its await message.answer(...) lets the handler of a
\* later update run.  Of a handler, everything before the answer happens when
\* the update is taken (the state filter, the validation, the write of
\* user_data, and for cancel_calculation its state.clear()); what stands
\* after the answer (state.set_state, state.clear) happens when it resumes,
\* if the answer was sent; if the answer raises, the exception leaves the
\* handler when it resumes (in process_goal_months, an exception of the
\* report's answer enters except Exception, which awaits the failure notice).
\* tasks holds the suspended handlers that still do something when they
\* resume: a change of state, or an exception.  A handler whose answer is
\* sent and that has nothing to do after it is not kept.

\* how many handlers are kept in tasks at a time; the handlers whose answer
\* is sent and that change no state after it (cancel, a re-prompt, the
\* commands) run at any time
MaxTasks == 1

NoStateChange == "nothing"

\* the kinds of answer after which the handler still changes the FSM state
ChangesStateAfterAnswer(kind) == kind \in {"prompt", "report", "failure"}

\* the kinds of out that are a message.answer: the handler is suspended at it
IsAnswer(kind) == kind \notin {"none", "raised"}

\* the message.answer of this kind raises in a run with the outcomes sent:
\* the failure notice is the answer of the except Exception block
AnswerRaises(kind, sent) ==
    /\ IsAnswer(kind)
    /\ IF kind = "failure" THEN ~sent.failure ELSE ~sent.first

\* the field the handler has written before its answer, when the update msg
\* taken at `step` gives the answer of R: the field of the step after an
\* accepted reply; goal_months (bot.py:449) also where the report could not
\* be composed from the record
Wrote(u, step, msg, R) ==
    IF R.out.handler # "start_calculation" /\ R.out.kind \in {"prompt", "report"}
    THEN FieldOf(step)
    ELSE IF /\ R.out.kind = "failure"
            /\ msg.has_text
            /\ HasKey(R.user_data, u)
    THEN "goal_months"
    ELSE NoStateChange

\* the suspended handler of the update msg of u taken at the state `step`;
\* R is what the handler does when its answer is sent, sent the outcomes of
\* the handler's answers in this run
Task(u, step, msg, R, sent) ==
    [user      |-> u,
     handler   |-> R.out.handler,
     step      |-> step,
     wrote     |-> Wrote(u, step, msg, R),
     set_state |-> IF ChangesStateAfterAnswer(R.out.kind)
                   THEN R.fsm[u] ELSE NoStateChange,
     answer    |-> R.out,
     raises    |-> AnswerRaises(R.out.kind, sent),
     notice_raises |-> R.out.kind = "report" /\ ~sent.first /\ ~sent.failure]

Without(seq, i) == SubSeq(seq, 1, i - 1) \o SubSeq(seq, i + 1, Len(seq))

\* the handler is kept in tasks: it changes the state or raises when it resumes
Kept(kind, sent) == ChangesStateAfterAnswer(kind) \/ AnswerRaises(kind, sent)

\* the handler takes an update of user u and runs up to its await
\* message.answer; R is what it does when its answers are sent, sent the
\* outcomes of its answers in this run
Take(u, msg, R, sent) ==
    /\ Kept(R.out.kind, sent) => Len(tasks) < MaxTasks
    /\ user_data' = R.user_data
    /\ fsm' = IF ChangesStateAfterAnswer(R.out.kind) THEN fsm ELSE R.fsm
    /\ out' = R.out
    /\ dialogue' = NextDialogue(R.out.handler, u, msg, R.out.kind)
    /\ tasks' = IF Kept(R.out.kind, sent)
                THEN Append(tasks, Task(u, fsm[u], msg, R, sent))
                ELSE tasks
    /\ net' = IF AnswerRaises(R.out.kind, sent) THEN net - 1 ELSE net

\* the handler h takes an update of user u
Commit(h, u, msg, sent) ==
    \E R \in {Run(h, Current, u, msg, AllSent)} : Take(u, msg, R, sent)

CmdStart == \E u \in Users, msg \in Messages, sent \in Sends :
    /\ Dispatch(msg, fsm[u]) = "cmd_start"
    /\ Commit("cmd_start", u, msg, sent)

CmdHelp == \E u \in Users, msg \in Messages, sent \in Sends :
    /\ Dispatch(msg, fsm[u]) = "cmd_help"
    /\ Commit("cmd_help", u, msg, sent)

ShowExample == \E u \in Users, msg \in Messages, sent \in Sends :
    /\ Dispatch(msg, fsm[u]) = "show_example"
    /\ Commit("show_example", u, msg, sent)

StartCalculation == \E u \in Users, msg \in Messages, sent \in Sends :
    /\ Dispatch(msg, fsm[u]) = "start_calculation"
    /\ Commit("start_calculation", u, msg, sent)

ProcessSalary == \E u \in Users, msg \in Messages, sent \in Sends :
    /\ fsm[u] = "waiting_for_salary"
    /\ Dispatch(msg, fsm[u]) = "process_salary"
    /\ Commit("process_salary", u, msg, sent)

ProcessOtherIncome == \E u \in Users, msg \in Messages, sent \in Sends :
    /\ fsm[u] = "waiting_for_other_income"
    /\ Dispatch(msg, fsm[u]) = "process_other_income"
    /\ Commit("process_other_income", u, msg, sent)

ProcessRent == \E u \in Users, msg \in Messages, sent \in Sends :
    /\ fsm[u] = "waiting_for_rent"
    /\ Dispatch(msg, fsm[u]) = "process_rent"
    /\ Commit("process_rent", u, msg, sent)

ProcessTransport == \E u \in Users, msg \in Messages, sent \in Sends :
    /\ fsm[u] = "waiting_for_transport"
    /\ Dispatch(msg, fsm[u]) = "process_transport"
    /\ Commit("process_transport", u, msg, sent)

ProcessOtherBills == \E u \in Users, msg \in Messages, sent \in Sends :
    /\ fsm[u] = "waiting_for_other_bills"
    /\ Dispatch(msg, fsm[u]) = "process_other_bills"
    /\ Commit("process_other_bills", u, msg, sent)

ProcessGoalName == \E u \in Users, msg \in Messages, sent \in Sends :
    /\ fsm[u] = "waiting_for_goal_name"
    /\ Dispatch(msg, fsm[u]) = "process_goal_name"
    /\ Commit("process_goal_name", u, msg, sent)

ProcessGoalAmount == \E u \in Users, msg \in Messages, sent \in Sends :
    /\ fsm[u] = "waiting_for_goal_amount"
    /\ Dispatch(msg, fsm[u]) = "process_goal_amount"
    /\ Commit("process_goal_amount", u, msg, sent)

ProcessGoalMonths == \E u \in Users, msg \in Messages, sent \in Sends :
    /\ fsm[u] = "waiting_for_goal_months"
    /\ Dispatch(msg, fsm[u]) = "process_goal_months"
    /\ Commit("process_goal_months", u, msg, sent)

\* no filter passes: the update is dropped
Unhandled == \E u \in Users, msg \in Messages :
    /\ fsm[u] = Idle
    /\ Dispatch(msg, fsm[u]) = "unhandled"
    /\ Commit("unhandled", u, msg, AllSent)

\* an answer has been sent: its handler resumes, changes the FSM state and ends
FinishUpdate == \E i \in 1..Len(tasks) :
    /\ ~tasks[i].raises
    /\ fsm' = IF tasks[i].set_state = NoStateChange THEN fsm
              ELSE [fsm EXCEPT ![tasks[i].user] = tasks[i].set_state]
    /\ out' = tasks[i].answer
    /\ tasks' = Without(tasks, i)
    /\ UNCHANGED <<user_data, dialogue, net>>

\* the statement whose exception Raise names, for an answer of this kind
RaisedAt(kind) ==
    CASE kind = "reprompt" -> "reprompt"
      [] kind = "failure"  -> "failure notice"
      [] OTHER             -> "answer"

\* an awaited answer raises.  The report's answer stands in the try block of
\* process_goal_months: the exception enters except Exception, which composes
\* the failure notice and awaits it.  Everywhere else the exception leaves the
\* handler, whose change of state is not reached.
FailUpdate == \E i \in 1..Len(tasks) :
    /\ tasks[i].raises
    /\ IF tasks[i].answer.kind = "report"
       THEN /\ out' = UnexpectedError(user_data, fsm, tasks[i].user, AllSent).out
            /\ tasks' = [tasks EXCEPT ![i] =
                             [tasks[i] EXCEPT !.answer = out',
                                              !.raises = tasks[i].notice_raises,
                                              !.notice_raises = FALSE]]
       ELSE /\ out' = Raise(user_data, fsm, tasks[i].user, tasks[i].handler,
                            "TelegramAPIError",
                            RaisedAt(tasks[i].answer.kind)).out
            /\ tasks' = Without(tasks, i)
    /\ UNCHANGED <<user_data, fsm, dialogue, net>>

\* out is the answer of a handler of u that is suspended at its await
\* message.answer and has state.set_state or state.clear after it (the next
\* prompt, the report, the failure notice).  A handler with nothing after its
\* answer (help, example, cancel, a re-prompt) is never meant: its return
\* changes nothing and the model has no step for it.
SuspendedBeforeStateChange(u) ==
    /\ out.user = u
    /\ ChangesStateAfterAnswer(out.kind)
    /\ \E k \in 1..Len(tasks) : tasks[k].user = u /\ tasks[k].answer = out

Next ==
    \/ CmdStart \/ CmdHelp \/ ShowExample \/ StartCalculation
    \/ ProcessSalary \/ ProcessOtherIncome \/ ProcessRent
    \/ ProcessTransport \/ ProcessOtherBills \/ ProcessGoalName
    \/ ProcessGoalAmount \/ ProcessGoalMonths \/ Unhandled
    \/ FinishUpdate

\* every message.answer succeeds
Spec == Init /\ [][Next]_vars

\* a message.answer may raise (network error, the user blocked the bot)
\* in how many handler runs a message.answer raises
MaxSendFailures == 1

InitSendFail == InitState /\ net = MaxSendFailures

NextSendFail ==
    \/ CmdStart \/ CmdHelp \/ ShowExample \/ StartCalculation
    \/ ProcessSalary \/ ProcessOtherIncome \/ ProcessRent
    \/ ProcessTransport \/ ProcessOtherBills \/ ProcessGoalName
    \/ ProcessGoalAmount \/ ProcessGoalMonths \/ Unhandled
    \/ FinishUpdate \/ FailUpdate

SpecSendFail == InitSendFail /\ [][NextSendFail]_vars

---------------------------------------------------------------------------
(* Vocabulary of the properties *)

\* the handling of one update of u in the current state, every answer sent
Handled(u, msg) == Handle(Current, u, msg, AllSent)

HandlerOf(state) ==
    CASE state = "waiting_for_salary"       -> "process_salary"
      [] state = "waiting_for_other_income" -> "process_other_income"
      [] state = "waiting_for_rent"         -> "process_rent"
      [] state = "waiting_for_transport"    -> "process_transport"
      [] state = "waiting_for_other_bills"  -> "process_other_bills"
      [] state = "waiting_for_goal_name"    -> "process_goal_name"
      [] state = "waiting_for_goal_amount"  -> "process_goal_amount"
      [] state = "waiting_for_goal_months"  -> "process_goal_months"
      [] OTHER -> "unhandled"

SkippableStates == {"waiting_for_other_income", "waiting_for_other_bills"}

PositiveSteps ==
    {"waiting_for_salary", "waiting_for_goal_amount", "waiting_for_goal_months"}

\* the state after s in the order of the dialogue; Idle after the last
Successor(state) ==
    LET i == CHOOSE k \in 1..Len(BudgetStates) : BudgetStates[k] = state
    IN  IF i = Len(BudgetStates) THEN Idle ELSE BudgetStates[i + 1]

\* msg is a text reply to the step u is at: it reaches the step's handler and
\* is neither the cancel signal nor, at a skippable step, the skip signal
IsReply(u, msg) ==
    /\ fsm[u] \in StateSet
    /\ msg.has_text
    /\ Dispatch(msg, fsm[u]) = HandlerOf(fsm[u])
    /\ msg.text # CancelText
    /\ ~(fsm[u] \in SkippableStates /\ msg.text = SkipText)

\* the reply is a number within the bound of the step
ValidNumber(state, text) ==
    /\ IntParses(Cleaned(text))
    /\ IF state \in PositiveSteps
       THEN IntValue(Cleaned(text)) > 0 ELSE IntValue(Cleaned(text)) >= 0

\* the reply is invalid for the step: no integer, out of the step's bound, or
\* a goal name shorter than two characters
InvalidReply(state, text) ==
    IF state = "waiting_for_goal_name"
    THEN Len(Strip(text)) < 2
    ELSE ~ValidNumber(state, text)

Fields(u) == IF HasKey(user_data, u) THEN DOMAIN user_data[u] ELSE {}

\* no field of u is stored
SessionCleared(ud, u) == ~HasKey(ud, u) \/ DOMAIN ud[u] = {}

---------------------------------------------------------------------------
(* C1 *)

\* C1: at every collection step, handling a reply that is invalid for the
\* step (no integer, out of the bound, a too-short goal name) leaves the
\* stored fields and the FSM state as they were and sends the re-prompt.
C1_InvalidReplyChangesNothing ==
    \A u \in Users, msg \in Messages :
        (IsReply(u, msg) /\ InvalidReply(fsm[u], msg.text)) =>
            /\ Handled(u, msg).user_data = user_data
            /\ Handled(u, msg).fsm = fsm
            /\ Handled(u, msg).out.kind = "reprompt"

\* an out-of-bound reply was re-prompted at the last step, seven fields kept
C1_Witness ==
    \E u \in Users :
        /\ out.user = u /\ out.kind = "reprompt"
        /\ out.handler = "process_goal_months"
        /\ fsm[u] = "waiting_for_goal_months"
        /\ Cardinality(Fields(u)) = 7

---------------------------------------------------------------------------
(* C2 *)

\* C2: once the cancel signal has been handled, in whatever non-Idle state
\* and with whatever collected, the user is Idle and none of the user's
\* fields is stored any more.
C2_CancelClearsSession ==
    \A u \in Users :
        (out.user = u /\ out.handler = "cancel_calculation") =>
            /\ fsm[u] = Idle
            /\ SessionCleared(user_data, u)

---------------------------------------------------------------------------
(* C3 *)

\* the cancel buttons of a keyboard: the labels that start with the cross mark
CancelButtons(keyboard) == {b \in keyboard : Head(b) = "[x]"}

\* C3: at every non-Idle state the cancel signal leads to Idle, and so does
\* the cancel button of the keyboard sent with the prompt of that state.
C3_OfferedCancelIsAccepted ==
    \A u \in Users :
        fsm[u] \in StateSet =>
            /\ Handled(u, Msg(CancelText)).fsm[u] = Idle
            /\ (out.user = u /\ out.kind = "prompt") =>
                   /\ CancelButtons(out.keyboard) # {}
                   /\ \A b \in CancelButtons(out.keyboard) :
                          Handled(u, Msg(b)).fsm[u] = Idle

---------------------------------------------------------------------------
(* C4 *)

\* C4: whenever a user is Idle, no record of that user is in user_data.
C4_NoSessionWhenIdle ==
    \A u \in Users : fsm[u] = Idle => ~HasKey(user_data, u)

---------------------------------------------------------------------------
(* C5 *)

\* a handler of start_calculation for u ends in this step: its answer was
\* sent and it has set the state, or its answer raised
StartCalculationEnds(u) ==
    \E i \in 1..Len(tasks) :
        /\ tasks[i].user = u
        /\ tasks[i].handler = "start_calculation"
        /\ tasks' = Without(tasks, i)

\* C5: whenever the handling of the start signal ends, in whatever state it
\* began, the user has an empty record and is in waiting_for_salary, and the
\* other users' states and records are as they were.
C5_StartResetsSession ==
    [][\A u \in Users :
           StartCalculationEnds(u) =>
               /\ HasKey(user_data', u)
               /\ user_data'[u] = EmptyDict
               /\ fsm'[u] = "waiting_for_salary"
               /\ \A v \in Users \ {u} :
                      /\ fsm'[v] = fsm[v]
                      /\ HasKey(user_data', v) = HasKey(user_data, v)
                      /\ HasKey(user_data, v) => user_data'[v] = user_data[v]]_vars

---------------------------------------------------------------------------
(* C6 *)

HelpSignals == {Msg(CommandStart), Msg(CommandHelp), Msg(HelpText)}

\* C6: /start, /help, the help button and the example button, in any state,
\* get the static answer and leave the FSM state and the fields unchanged.
C6_HelpAndExampleTouchNothing ==
    \A u \in Users :
        /\ \A msg \in HelpSignals :
               /\ Handled(u, msg).out.kind = "help"
               /\ Handled(u, msg).fsm = fsm
               /\ Handled(u, msg).user_data = user_data
        /\ Handled(u, Msg(ExampleText)).out.kind = "example"
        /\ Handled(u, Msg(ExampleText)).fsm = fsm
        /\ Handled(u, Msg(ExampleText)).user_data = user_data

\* the help was answered while a goal name was awaited
C6_Witness ==
    \E u \in Users :
        /\ out.user = u /\ out.kind = "help"
        /\ fsm[u] = "waiting_for_goal_name"
        /\ Cardinality(Fields(u)) = 5

---------------------------------------------------------------------------
(* C7 *)

\* the BudgetInput of the current dialogue: the replies, 0 for a skipped step
BudgetInput(replies, goal_months) ==
    Put(Put(Put(replies, "other_income", Get(replies, "other_income", 0)),
            "other_bills", Get(replies, "other_bills", 0)),
        "goal_months", goal_months)

RequiredReplies == {"salary", "rent", "transport", "goal_name", "goal_amount"}

\* C7: a valid goal_months reply at waiting_for_goal_months sends a report
\* whose five figures are the calculator's result on the replies of the
\* current dialogue (0 for a skipped step), and leaves the user Idle.
C7_ReportIsCalculatorOnDialogue ==
    \A u \in Users, msg \in Messages :
        (/\ fsm[u] = "waiting_for_goal_months"
         /\ IsReply(u, msg)
         /\ ValidNumber(fsm[u], msg.text)) =>
            LET R == Handled(u, msg)
                expected == calculate_results(
                    BudgetInput(dialogue[u], IntValue(Cleaned(msg.text))))
            IN  /\ RequiredReplies \subseteq DOMAIN dialogue[u]
                /\ R.out.kind = "report"
                /\ R.out.body.total_income = format_rubles(expected.total_income)
                /\ R.out.body.fixed_expenses = format_rubles(expected.fixed_expenses)
                /\ R.out.body.monthly_contribution =
                       format_rubles(expected.monthly_contribution)
                /\ R.out.body.monthly_budget = format_rubles(expected.monthly_budget)
                /\ R.out.body.daily_limit = format_rubles(expected.daily_limit)
                /\ R.fsm[u] = Idle

\* a report was sent for a dialogue whose other income was skipped
C7_Witness ==
    \E u \in Users :
        /\ out.user = u /\ out.kind = "report"
        /\ fsm[u] = Idle
        /\ ~HasKey(dialogue[u], "other_income")
        /\ HasKey(dialogue[u], "other_bills")
        /\ out.body.total_income = format_rubles(dialogue[u]["salary"])

---------------------------------------------------------------------------
(* C8 *)

\* C8: at waiting_for_goal_name every reply that is not empty after trimming
\* is stored and advances; only an empty one is re-prompted.
C8_NonEmptyNameAccepted ==
    \A u \in Users, msg \in Messages :
        (fsm[u] = "waiting_for_goal_name" /\ IsReply(u, msg)) =>
            IF Len(Strip(msg.text)) > 0
            THEN /\ Handled(u, msg).fsm[u] = "waiting_for_goal_amount"
                 /\ Handled(u, msg).user_data[u]["goal_name"] = Strip(msg.text)
            ELSE /\ Handled(u, msg).fsm = fsm
                 /\ Handled(u, msg).user_data = user_data
                 /\ Handled(u, msg).out.kind = "reprompt"

---------------------------------------------------------------------------
(* C9 *)

\* C9: at the two skippable steps the skip signal does what the reply "0"
\* does (0 stored under the step's field, next step, same answer); a report
\* of a dialogue with both steps skipped shows total income = salary and
\* fixed expenses = rent + transport.
C9_SkipIsZero ==
    \A u \in Users :
        /\ fsm[u] \in SkippableStates =>
               /\ Handled(u, Msg(SkipText)) = Handled(u, Msg(<<"0">>))
               /\ Handled(u, Msg(SkipText)).user_data[u][FieldOf(fsm[u])] = 0
               /\ Handled(u, Msg(SkipText)).fsm[u] = Successor(fsm[u])
        /\ (/\ out.user = u /\ out.kind = "report"
            /\ SuspendedBeforeStateChange(u)
            /\ ~HasKey(dialogue[u], "other_income")
            /\ ~HasKey(dialogue[u], "other_bills")) =>
               /\ out.body.total_income = format_rubles(dialogue[u]["salary"])
               /\ out.body.fixed_expenses =
                      format_rubles(dialogue[u]["rent"] + dialogue[u]["transport"])

\* a report is being sent for a dialogue in which both skippable steps were
\* skipped
C9_Witness ==
    \E u \in Users :
        /\ out.user = u /\ out.kind = "report"
        /\ SuspendedBeforeStateChange(u)
        /\ ~HasKey(dialogue[u], "other_income")
        /\ ~HasKey(dialogue[u], "other_bills")
        /\ user_data[u]["other_income"] = 0
        /\ user_data[u]["other_bills"] = 0
        /\ dialogue[u]["rent"] > 0

---------------------------------------------------------------------------
(* C10 *)

\* the except Exception branch of process_goal_months was entered for u: its
\* failure notice was sent, or sending it raised
TerminalErrorOccurred(u) ==
    /\ out.user = u
    /\ out.handler = "process_goal_months"
    /\ \/ out.kind = "failure"
       \/ out.kind = "raised" /\ out.body.at = "failure notice"

\* C10: once an unexpected error has occurred in the handling of
\* waiting_for_goal_months, it was caught: the failure message was sent, the
\* user's fields are cleared and the user is Idle.
C10_TerminalErrorRecovered ==
    \A u \in Users :
        TerminalErrorOccurred(u) =>
            /\ out.kind = "failure"
            /\ fsm[u] = Idle
            /\ SessionCleared(user_data, u)

---------------------------------------------------------------------------
(* The calculator called directly *)

GoalNameSample == <<"a", "b">>

\* the amounts and terms the direct calls draw their arguments from
CalcSalaries == {0, 30000, 70000}

CalcOtherIncomes == {0, 20000}

CalcRents == {0, 25000, 30000}

CalcTransports == {0, 6000, 10000}

CalcGoalAmounts == {-5, 0, 1, 7, 100, 120000, 150000}

CalcGoalMonths == {-3, 0, 1, 2, 3, 7, 10, 12}

FullInputs ==
    { [salary |-> s, other_income |-> oi, rent |-> r, transport |-> t,
       other_bills |-> 0, goal_name |-> GoalNameSample,
       goal_amount |-> ga, goal_months |-> gm] :
          s \in CalcSalaries, oi \in CalcOtherIncomes, r \in CalcRents,
          t \in CalcTransports, ga \in CalcGoalAmounts, gm \in CalcGoalMonths }

\* dicts with keys missing: data.get falls back to its default
PartialInputs ==
    { [salary |-> s, goal_amount |-> ga] :
          s \in CalcSalaries, ga \in CalcGoalAmounts }
    \cup {EmptyDict}

CalcInputs == FullInputs \cup PartialInputs

\* a call calculate_results(data) about to be made
CalcCall(data) ==
    Out("nobody", "calculate_results", "call", [data |-> data], NoMarkup)

InitCalc ==
    /\ user_data = EmptyDict
    /\ fsm = [u \in Users |-> Idle]
    /\ dialogue = [u \in Users |-> EmptyDict]
    /\ out \in {CalcCall(d) : d \in CalcInputs}
    /\ net = 0
    /\ tasks = <<>>

\* results = calculate_results(data)
CalculateResults ==
    /\ out.kind = "call"
    /\ out' = Out("nobody", "calculate_results", "result",
                  [data |-> out.body.data,
                   results |-> calculate_results(out.body.data)], NoMarkup)
    /\ UNCHANGED <<user_data, fsm, dialogue, net, tasks>>

\* the calculator called directly on drawn arguments, next to the dialogue
SpecCalc == InitCalc /\ [][CalculateResults \/ Next]_vars

\* a direct call has returned
Returned == out.handler = "calculate_results" /\ out.kind = "result"

---------------------------------------------------------------------------
(* C13 *)

\* C13: for every goal_amount > 0 and effective goal_months >= 1 the monthly
\* contribution is the ceiling of goal_amount / goal_months:
\* contribution * months >= amount and (contribution - 1) * months < amount.
C13_ContributionIsCeiling ==
    (Returned /\ Get(out.body.data, "goal_amount", 0) > 0) =>
        LET ga == out.body.data["goal_amount"]
            gm == out.body.results.goal_months
            mc == out.body.results.monthly_contribution
        IN  /\ gm >= 1
            /\ mc * gm >= ga
            /\ (mc - 1) * gm < ga

\* the calculator returned for an amount the term does not divide: 7 over 2
C13_Witness ==
    /\ Returned
    /\ Get(out.body.data, "goal_amount", 0) = 7
    /\ Get(out.body.data, "goal_months", 1) = 2
    /\ out.body.results.monthly_contribution = 4

---------------------------------------------------------------------------
(* C14 *)

\* floor(a / b) for b > 0
Floor(a, b) == a \div b

\* C14: daily_limit is never negative; it is floor(monthly_budget / 30) when
\* monthly_budget >= 1 and 0 when monthly_budget <= 0, monthly_budget being
\* income - fixed expenses - contribution, which may be negative.
C14_DailyLimitNonNegative ==
    Returned =>
        LET d  == out.body.data
            r  == out.body.results
            mb == Get(d, "salary", 0) + Get(d, "other_income", 0)
                  - Get(d, "rent", 0) - Get(d, "transport", 0)
                  - Get(d, "other_bills", 0) - r.monthly_contribution
        IN  /\ r.monthly_budget = mb
            /\ r.daily_limit >= 0
            /\ mb >= 1 => r.daily_limit = Floor(mb, 30)
            /\ mb <= 0 => r.daily_limit = 0

\* the deficit scenario: salary 30000, rent 25000, transport 10000, a goal of
\* 120000 over 12 months: the budget is -15000 and the daily limit 0
C14_Witness ==
    /\ Returned
    /\ out.body.data = [salary |-> 30000, other_income |-> 0, rent |-> 25000,
                        transport |-> 10000, other_bills |-> 0,
                        goal_name |-> GoalNameSample,
                        goal_amount |-> 120000, goal_months |-> 12]
    /\ out.body.results.monthly_budget = -15000
    /\ out.body.results.daily_limit = 0

---------------------------------------------------------------------------
(* C16 *)

\* C16: called directly with goal_months <= 0 the calculator takes 1 month,
\* so the contribution is the goal amount; and the dialogue never stores a
\* goal_months <= 0.
C16_MonthsCoercedAndNeverStoredNonPositive ==
    /\ (Returned /\ HasKey(out.body.data, "goal_months")
                 /\ out.body.data["goal_months"] <= 0) =>
           /\ out.body.results.goal_months = 1
           /\ out.body.results.monthly_contribution =
                  Get(out.body.data, "goal_amount", 0)
    /\ \A u \in Users :
           (HasKey(user_data, u) /\ HasKey(user_data[u], "goal_months")) =>
               user_data[u]["goal_months"] > 0

\* the calculator returned for a negative term
C16_Witness ==
    /\ Returned
    /\ Get(out.body.data, "goal_months", 1) = -3
    /\ Get(out.body.data, "goal_amount", 0) = 150000
    /\ out.body.results.monthly_contribution = 150000

\* the dialogue refused the reply "0" at waiting_for_goal_months and later
\* stored a positive term
C16_WitnessDialogue ==
    \E u \in Users :
        /\ out.user = u /\ out.kind = "report"
        /\ user_data[u]["goal_months"] > 0
        /\ Handled(u, Msg(<<"0">>)).user_data = user_data

---------------------------------------------------------------------------
(* The worked example run as a dialogue *)

\* what the user of the worked example answers at each step
ExampleReply(state) ==
    CASE state = "waiting_for_salary"       -> <<"7", "0", "0", "0", "0">>
      [] state = "waiting_for_other_income" -> <<"2", "0", " ", "0", "0", "0">>
      [] state = "waiting_for_rent"         -> <<"3", "0", ",", "0", "0", "0">>
      [] state = "waiting_for_transport"    -> <<"6", "0", "0", "0">>
      [] state = "waiting_for_other_bills"  -> <<"0">>
      [] state = "waiting_for_goal_name"    -> <<" ">> \o ExampleGoalName
      [] state = "waiting_for_goal_amount"  -> <<"1", "5", "0", " ", "0", "0", "0">>
      [] state = "waiting_for_goal_months"  -> <<"1", "0">>

\* what else that user sends: the buttons, a command, a reply no step accepts
ExampleControls ==
    {StartText, ExampleText, HelpText, CommandStart, CancelText, SkipText,
     <<"-", "7">>}

\* the user answers the prompt of the current step with the example's figure
ExampleAnswer == \E u \in Users :
    /\ fsm[u] \in StateSet
    /\ Commit(Dispatch(Msg(ExampleReply(fsm[u])), fsm[u]), u,
              Msg(ExampleReply(fsm[u])), AllSent)

\* the user presses a button, sends a command or a wrong reply
ExampleControl == \E u \in Users, t \in ExampleControls :
    Commit(Dispatch(Msg(t), fsm[u]), u, Msg(t), AllSent)

SpecExample == Init /\ [][ExampleAnswer \/ ExampleControl \/ FinishUpdate]_vars

\* the replies of the worked example, as values
ExampleDialogue ==
    [salary |-> 70000, other_income |-> 20000, rent |-> 30000,
     transport |-> 6000, other_bills |-> 0, goal_name |-> ExampleGoalName,
     goal_amount |-> 150000, goal_months |-> 10]

---------------------------------------------------------------------------
(* C15 *)

\* C15: the dialogue run from Idle with the replies of the worked example
\* reports total income 90000, fixed expenses 36000, contribution 15000,
\* budget 39000 and daily limit 1300, the figures the example message shows.
C15_WorkedExample ==
    \A u \in Users :
        (/\ out.user = u /\ out.kind = "report"
         /\ SuspendedBeforeStateChange(u)
         /\ dialogue[u] = ExampleDialogue) =>
            /\ calculate_results(user_data[u]).total_income = 90000
            /\ calculate_results(user_data[u]).fixed_expenses = 36000
            /\ calculate_results(user_data[u]).monthly_contribution = 15000
            /\ calculate_results(user_data[u]).monthly_budget = 39000
            /\ calculate_results(user_data[u]).daily_limit = 1300
            /\ out.body = Handled(u, Msg(ExampleText)).out.body
            /\ out.body.daily_limit = <<"1", " ", "3", "0", "0", " ", "RUB">>

\* the report of the worked example is being sent
C15_Witness ==
    \E u \in Users :
        /\ out.user = u /\ out.kind = "report"
        /\ SuspendedBeforeStateChange(u)
        /\ dialogue[u] = ExampleDialogue
        /\ out.body.monthly_budget = format_rubles(39000)

---------------------------------------------------------------------------
(* C19 *)

\* the record of u, empty where u has none
RecordOf(ud, u) == IF HasKey(ud, u) THEN ud[u] ELSE EmptyDict

\* msg is accepted at the step u is at: a valid reply, or the skip signal at
\* a skippable step
Accepted(u, msg) ==
    /\ fsm[u] \in StateSet
    /\ msg.has_text
    /\ Dispatch(msg, fsm[u]) = HandlerOf(fsm[u])
    /\ msg.text # CancelText
    /\ \/ fsm[u] \in SkippableStates /\ msg.text = SkipText
       \/ ~InvalidReply(fsm[u], msg.text)

\* the value an accepted message stands for
AcceptedValue(state, msg) ==
    IF state \in SkippableStates /\ msg.text = SkipText THEN 0
    ELSE IF state = "waiting_for_goal_name" THEN Strip(msg.text)
    ELSE IntValue(Cleaned(msg.text))

\* C19: handling an accepted reply writes the field of the active step, with
\* the parsed value, and no other field; and the write comes with the advance:
\* no user is at a step whose field is already written.
C19_WriteAndAdvanceTogether ==
    \A u \in Users :
        /\ \A msg \in Messages :
               (HasKey(user_data, u) /\ Accepted(u, msg)) =>
                   Handled(u, msg).user_data =
                       Store(user_data, u, FieldOf(fsm[u]),
                             AcceptedValue(fsm[u], msg))
        /\ fsm[u] \in StateSet =>
               ~HasKey(RecordOf(user_data, u), FieldOf(fsm[u]))

---------------------------------------------------------------------------
(* C20 *)

RequiredStates == StateSet \ SkippableStates

\* C20: at every required step the skip signal neither advances the step nor
\* writes a field.
C20_SkipRefusedAtRequired ==
    \A u \in Users :
        fsm[u] \in RequiredStates =>
            /\ Handled(u, Msg(SkipText)).fsm = fsm
            /\ Handled(u, Msg(SkipText)).user_data = user_data

---------------------------------------------------------------------------
(* One dialogue at a time: progress *)

\* the start button pressed while no dialogue is open
StartDialogue == \E u \in Users, msg \in Messages, sent \in Sends :
    /\ fsm[u] = Idle
    /\ Dispatch(msg, fsm[u]) = "start_calculation"
    /\ Commit("start_calculation", u, msg, sent)

\* an update was handled as a reply the current step accepts (or a permitted
\* skip): the step's handler answered with the next prompt or the report
AcceptedReply == \E u \in Users :
    /\ fsm[u] \in StateSet
    /\ out'.user = u
    /\ out'.handler = HandlerOf(fsm[u])
    /\ (out'.kind = "prompt" \/ out'.kind = "report")
    /\ Len(tasks') = Len(tasks) + 1

\* some user is in a dialogue: a reply can be accepted
InDialogue == \E u \in Users : fsm[u] \in StateSet

\* weak fairness of AcceptedReply, its enabling condition written out: a user
\* who stays in a dialogue eventually sends a reply the step accepts
RepliesKeepComing == []<>(~InDialogue) \/ []<><<AcceptedReply>>_vars

\* the updates of users who do not restart a dialogue that is open
NextDialogues ==
    \/ CmdStart \/ CmdHelp \/ ShowExample \/ StartDialogue
    \/ ProcessSalary \/ ProcessOtherIncome \/ ProcessRent
    \/ ProcessTransport \/ ProcessOtherBills \/ ProcessGoalName
    \/ ProcessGoalAmount \/ ProcessGoalMonths \/ Unhandled
    \/ FinishUpdate

\* the answer a handler awaits is sent or raises: the handler resumes
AnswersReturn == WF_vars(FinishUpdate)

\* ... and who, at every step, eventually send a reply the step accepts
SpecProgress ==
    Init /\ [][NextDialogues]_vars /\ RepliesKeepComing /\ AnswersReturn

---------------------------------------------------------------------------
(* C17 *)

AllFields ==
    {"salary", "other_income", "rent", "transport", "other_bills",
     "goal_name", "goal_amount", "goal_months"}

\* C17: in every state of a dialogue the cancel signal returns the user to
\* Idle; a dialogue whose user eventually sends an accepted reply at each step
\* returns to Idle; and a report is composed after eight accepted replies, one
\* per field, and leaves the user Idle once every handler of the user returned.
C17_NeverStuck ==
    /\ [](\A u \in Users :
              fsm[u] \in StateSet =>
                  /\ Handled(u, Msg(CancelText)).fsm[u] = Idle
                  /\ \E msg \in Messages :
                         /\ Accepted(u, msg)
                         /\ Handled(u, msg).fsm[u] = Successor(fsm[u]))
    /\ \A u \in Users : (fsm[u] \in StateSet) ~> (fsm[u] = Idle)
    /\ [](\A u \in Users :
              (out.user = u /\ out.kind = "report") =>
                  /\ (\A k \in 1..Len(tasks) : tasks[k].user # u) => fsm[u] = Idle
                  /\ SuspendedBeforeStateChange(u) =>
                         /\ DOMAIN user_data[u] = AllFields
                         /\ Cardinality(DOMAIN dialogue[u]) +
                            Cardinality({f \in {"other_income", "other_bills"} :
                                             ~HasKey(dialogue[u], f)}) = 8)

\* a dialogue went through its eight steps and returned to Idle with a report
C17_Witness ==
    \E u \in Users :
        /\ out.user = u /\ out.kind = "report"
        /\ out.handler = "process_goal_months"
        /\ fsm[u] = Idle
        /\ DOMAIN user_data[u] = AllFields


---------------------------------------------------------------------------
(* Updates handled as concurrent tasks *)

\* main() polls with dp.start_polling(bot): every update is handled in a task
\* of its own and the dispatcher has no per-user isolation of events, so a
\* handler suspended at its await message.answer(...) lets the handler of a
\* later update run.  Of a handler, everything before the answer happens when
\* the update is taken (the state filter, the validation, the write of
\* user_data, and for cancel_calculation its state.clear()); what stands
\* after the answer (state.set_state, state.clear) happens when it resumes.

\* With few texts, two handlers of one user can be suspended before their
\* change of state.
MaxAsyncTasks == 2

\* the start button, the cancel text, a reply every numeric step accepts and
\* one the goal name step accepts
AsyncTexts == AmountTexts \cup {<<" ", "a", "b", " ">>, CancelText, StartText}

InitAsync ==
    /\ user_data = EmptyDict
    /\ fsm = [u \in Users |-> Idle]
    /\ out = NoOut
    /\ dialogue = [u \in Users |-> EmptyDict]
    /\ tasks = <<>>
    /\ net = 0

\* an update is taken: its handler runs up to its await message.answer
BeginUpdate == \E u \in Users, t \in AsyncTexts :
             \E R \in {Handle(Current, u, Msg(t), AllSent)} :
    /\ ChangesStateAfterAnswer(R.out.kind) => Len(tasks) < MaxAsyncTasks
    /\ user_data' = R.user_data
    /\ fsm' = IF ChangesStateAfterAnswer(R.out.kind) THEN fsm ELSE R.fsm
    /\ out' = R.out
    /\ dialogue' = NextDialogue(R.out.handler, u, Msg(t), R.out.kind)
    /\ tasks' = IF ChangesStateAfterAnswer(R.out.kind)
                THEN Append(tasks, Task(u, fsm[u], Msg(t), R, AllSent))
                ELSE tasks
    /\ UNCHANGED net

NextAsync == BeginUpdate \/ FinishUpdate

SpecAsync == InitAsync /\ [][NextAsync]_vars

\* C11: the handling of one message of a user completes before the handling
\* of that user's next message begins: no reply of a user is validated
\* against a step that an earlier, still unfinished handler of the same user
\* is about to change, and no field is written twice for one step by two
\* replies.
C11_OneHandlerAtATimePerUser ==
    \A i, j \in 1..Len(tasks) :
        (i < j /\ tasks[i].user = tasks[j].user) =>
            /\ ~(/\ tasks[i].set_state \notin {NoStateChange, tasks[j].step}
                 /\ tasks[j].handler = HandlerOf(tasks[j].step))
            /\ ~(/\ tasks[i].wrote # NoStateChange
                 /\ tasks[i].wrote = tasks[j].wrote)


\* C18: every change of a user's state is a move to the state's immediate
\* successor in the order of BudgetStates (Idle after the last), a move to
\* Idle, or a move to waiting_for_salary: no state is skipped over, entered
\* again after it was passed, or entered from Idle other than
\* waiting_for_salary.
C18_StepsChangeInOrder ==
    [][\A u \in Users :
          fsm'[u] # fsm[u] =>
              \/ fsm[u] \in StateSet /\ fsm'[u] = Successor(fsm[u])
              \/ fsm'[u] = Idle
              \/ fsm'[u] = "waiting_for_salary"]_vars

\* C17, last clause, with the updates of a user handled as concurrent tasks: a
\* dialogue reaches its terminal transition after exactly eight accepted
\* replies (or permitted skips), one per step: where process_goal_months
\* composes the report, the record holds the eight fields and each of them is
\* a reply or a skip of the dialogue.
C17_EightAcceptedReplies ==
    \A u \in Users :
        (out.user = u /\ out.kind = "report" /\ SuspendedBeforeStateChange(u)) =>
            /\ DOMAIN user_data[u] = AllFields
            /\ DOMAIN dialogue[u] \cup {"other_income", "other_bills"} = AllFields


---------------------------------------------------------------------------
(* Two users *)

\* Two users talk to the bot at the same time.  Their updates are handled as
\* tasks that interleave at the await message.answer(...); each user waits
\* for the answer before sending the next message (what two updates of one
\* user in flight do is the subject of C11).

TwoUsers == {"u1", "u2"}

InitUsers ==
    /\ user_data = EmptyDict
    /\ fsm = [u \in TwoUsers |-> Idle]
    /\ out = NoOut
    /\ dialogue = [u \in TwoUsers |-> EmptyDict]
    /\ tasks = <<>>
    /\ net = 0

Waiting(u) == \E k \in 1..Len(tasks) : tasks[k].user = u

\* what the users send: as above, and the skip button
UserTexts == AsyncTexts \cup {SkipText}

\* an update of a user is taken: its handler runs up to its await
UserBeginUpdate == \E u \in TwoUsers, t \in UserTexts :
                 \E R \in {Handle(Current, u, Msg(t), AllSent)} :
    /\ ~Waiting(u)
    /\ user_data' = R.user_data
    /\ fsm' = IF ChangesStateAfterAnswer(R.out.kind) THEN fsm ELSE R.fsm
    /\ out' = R.out
    /\ dialogue' = NextDialogue(R.out.handler, u, Msg(t), R.out.kind)
    /\ tasks' = IF ChangesStateAfterAnswer(R.out.kind)
                THEN Append(tasks, Task(u, fsm[u], Msg(t), R, AllSent))
                ELSE tasks
    /\ UNCHANGED net

NextUsers == UserBeginUpdate \/ FinishUpdate

SpecUsers == InitUsers /\ [][NextUsers]_vars


\* the user whose update the last step took or resumed
Acting == out.user

\* C12: for two distinct users and any interleaving of their updates, a step
\* of one user changes neither the state nor the stored fields of the other,
\* and the figures of the report a user receives are the calculator's result
\* on that user's own replies of the dialogue (0 for a skipped step).
C12_UsersIndependent ==
    /\ [][\A u \in TwoUsers :
             Acting' # u =>
                 /\ fsm'[u] = fsm[u]
                 /\ HasKey(user_data', u) = HasKey(user_data, u)
                 /\ RecordOf(user_data', u) = RecordOf(user_data, u)]_vars
    /\ [](\A u \in TwoUsers :
             (out.user = u /\ out.kind = "report") =>
                 /\ RequiredReplies \cup {"goal_months"} \subseteq DOMAIN dialogue[u]
                 /\ out.body.total_income = format_rubles(
                        calculate_results(BudgetInput(dialogue[u],
                            dialogue[u]["goal_months"])).total_income)
                 /\ out.body.fixed_expenses = format_rubles(
                        calculate_results(BudgetInput(dialogue[u],
                            dialogue[u]["goal_months"])).fixed_expenses)
                 /\ out.body.monthly_contribution = format_rubles(
                        calculate_results(BudgetInput(dialogue[u],
                            dialogue[u]["goal_months"])).monthly_contribution)
                 /\ out.body.monthly_budget = format_rubles(
                        calculate_results(BudgetInput(dialogue[u],
                            dialogue[u]["goal_months"])).monthly_budget)
                 /\ out.body.daily_limit = format_rubles(
                        calculate_results(BudgetInput(dialogue[u],
                            dialogue[u]["goal_months"])).daily_limit))

\* a report goes to one user, who skipped the other income, while an update
\* of the other user, who gave one, is being handled in the middle of a
\* dialogue
C12_Witness ==
    /\ out.user = "u2" /\ out.kind = "report"
    /\ ~HasKey(dialogue["u2"], "other_income")
    /\ Waiting("u1")
    /\ fsm["u1"] \in StateSet
    /\ HasKey(user_data, "u1")
    /\ HasKey(user_data["u1"], "other_income")
    /\ user_data["u1"]["other_income"] # user_data["u2"]["other_income"]


---------------------------------------------------------------------------
(* C21 *)

\* the position of a state in the order of the dialogue
StepIndex(state) == CHOOSE k \in 1..Len(BudgetStates) : BudgetStates[k] = state

\* the fields of the steps before a state
PrecedingFields(state) ==
    {FieldOf(BudgetStates[k]) : k \in 1..(StepIndex(state) - 1)}

\* the bound the handler of a field checks before it stores the value
WithinBound(field, value) ==
    CASE field \in {"salary", "goal_amount", "goal_months"} -> value > 0
      [] field = "goal_name" -> Len(value) >= MinGoalNameLen
      [] OTHER -> value >= 0

\* C21: whenever a user is at the k-th state of the dialogue, the user's
\* record holds exactly the fields of the k-1 states before it, every one a
\* reply of the current dialogue (0 for a skipped step) within its bound; so
\* at waiting_for_goal_months every field the report looks up is stored.
C21_FieldsArePrecedingSteps ==
    \A u \in Users :
        fsm[u] \in StateSet =>
            /\ HasKey(user_data, u)
            /\ DOMAIN RecordOf(user_data, u) = PrecedingFields(fsm[u])
            /\ \A f \in DOMAIN RecordOf(user_data, u) :
                   /\ user_data[u][f] = Get(dialogue[u], f, 0)
                   /\ WithinBound(f, user_data[u][f])
            /\ (fsm[u] = "waiting_for_goal_months" =>
                    ReportKeys \subseteq DOMAIN RecordOf(user_data, u))


==========================================================================
